---- MODULE Spec2Model ----
(***************************************************************************)
(* Model of the license panel (src/main.py): the recursive normalizer      *)
(* normalize_licenses, the remote JSON store reached through get_bin and   *)
(* save_bin, the in-process session table, the license handlers and the    *)
(* sites handlers with their own store (get_sites, save_sites).            *)
(*                                                                         *)
(* JSON values are tagged records.  A JSON object (a Python dict) is an    *)
(* ordered sequence of key/value items with distinct keys, because the     *)
(* code's traversal order (dict insertion order) decides collisions.       *)
(***************************************************************************)
EXTENDS Integers, Sequences, FiniteSets, TLC

VARIABLES
    doc,              \* normalizer run: the document handed to normalize_licenses
    base,             \* normalizer run: the document before any wrapper was added
    wraps,            \* normalizer run: number of wrappers added around base
    out,              \* normalizer run: normalize_licenses(doc), a dict
    out2,             \* normalizer run: normalize_licenses of out fed back as a document
    phase,            \* normalizer run: "in", "out", "again" ("off" in the panel runs)
    store,            \* remote store: the JSON document held by the bin
    active_sessions,  \* set of session tokens issued and not logged out
    REPAIR_TOKEN,     \* the configured repair token ("" when not configured)
    req,              \* per request slot: the request being served
    started,          \* number of license and sites requests started so far
    puts,             \* number of PUTs the store has accepted so far
    sites,            \* remote sites store: the JSON document held by the sites bin
    SITES_CONFIGURED  \* line 25: both SITES_BIN_ID and SITES_MASTER_KEY are set

vars == <<doc, base, wraps, out, out2, phase,
          store, active_sessions, REPAIR_TOKEN, req, started, puts,
          sites, SITES_CONFIGURED>>

normVars == <<doc, base, wraps, out, out2, phase>>
panelVars == <<store, active_sessions, REPAIR_TOKEN, req, started, puts,
               sites, SITES_CONFIGURED>>
sitesVars == <<sites, SITES_CONFIGURED>>

-----------------------------------------------------------------------------
(* JSON values *)

Null == [t |-> "null"]
Str(s) == [t |-> "str", s |-> s]
Num(n) == [t |-> "num", n |-> n]
Bool(b) == [t |-> "bool", b |-> b]
Arr(a) == [t |-> "arr", a |-> a]
Obj(kv) == [t |-> "obj", kv |-> kv]
KV(k, v) == [k |-> k, v |-> v]

\* isinstance(v, dict)
IsDict(v) == v.t = "obj"

\* k in d
DictHas(d, k) == \E i \in DOMAIN d : d[i].k = k

\* d.get(k, dflt)
DictGet(d, k, dflt) ==
    IF DictHas(d, k) THEN d[CHOOSE i \in DOMAIN d : d[i].k = k].v ELSE dflt

\* d[k] = v : an existing key keeps its position, a new key is appended
DictSet(d, k, v) ==
    IF DictHas(d, k)
    THEN [i \in DOMAIN d |-> IF d[i].k = k THEN KV(k, v) ELSE d[i]]
    ELSE Append(d, KV(k, v))

\* d.update(e)
RECURSIVE DictUpdate(_, _)
DictUpdate(d, e) ==
    IF e = <<>> THEN d
    ELSE DictUpdate(DictSet(d, Head(e).k, Head(e).v), Tail(e))

\* del d[k]
DictDel(d, k) == SelectSeq(d, LAMBDA it : it.k # k)

DictKeys(d) == {d[i].k : i \in DOMAIN d}

\* Python's == on JSON values: dicts compare as mappings, whatever their order
RECURSIVE JsonMap(_)
JsonMap(v) ==
    IF v.t = "obj"
    THEN [t |-> "map",
          m |-> [k \in DictKeys(v.kv) |-> JsonMap(DictGet(v.kv, k, Null))]]
    ELSE IF v.t = "arr"
    THEN [t |-> "arr", a |-> [i \in DOMAIN v.a |-> JsonMap(v.a[i])]]
    ELSE v

DictEq(d, e) == JsonMap(Obj(d)) = JsonMap(Obj(e))

-----------------------------------------------------------------------------
(* normalize_licenses *)

DefaultPeriodDays == 30

\* mutant: metadata is treated as data
IsStructuralKey_NoMetadata(key) == key \in {"record", "licenses"}

\* the keys the traversal skips (line 61)
IsStructuralKey(key) == key \in {"record", "metadata", "licenses"}

\* line 63: a dict holding any of the four record fields is a literal record
EntityFields == {"key", "status", "expiresAt", "periodDays"}

\* mutant: only "key" marks a record
IsEntity_KeyOnly(value) == IsDict(value) /\ DictHas(value.kv, "key")

\* mutant: any dict is taken as a record
IsEntity_AnyDict(value) == IsDict(value)

\* mutant: the test uses the field names of the older schema
IsEntity_OldSchema(value) ==
    IsDict(value) /\ \E f \in {"expira", "hwid", "ativo"} : DictHas(value.kv, f)

IsEntity(value) ==
    IsDict(value) /\ \E f \in EntityFields : DictHas(value.kv, f)

\* line 66: a dict holding a wrapper key is descended into
IsWrapper(value) ==
    IsDict(value) /\ \E w \in {"record", "metadata", "licenses"} : DictHas(value.kv, w)

\* mutant: the collected entry is kept as found, no defaults filled
CleanRecord_Raw(license_key, info) == info

\* lines 74-82: the canonical record built for one collected entry
CleanRecord(license_key, info) ==
    Obj(<< KV("key", DictGet(info.kv, "key", Str(license_key))),
           KV("status", DictGet(info.kv, "status", Str("active"))),
           KV("hardwareId", DictGet(info.kv, "hardwareId", Null)),
           KV("expiresAt", DictGet(info.kv, "expiresAt", Str(""))),
           KV("periodDays", DictGet(info.kv, "periodDays", Num(DefaultPeriodDays))),
           KV("allowedProviders", DictGet(info.kv, "allowedProviders", Arr(<<>>))),
           KV("createdAt", DictGet(info.kv, "createdAt", Str(""))) >>)

\* lines 71-82: the post-pass over the collected entries, in their order
RECURSIVE Cleaned(_)
Cleaned(result) ==
    IF result = <<>> THEN <<>>
    ELSE LET it == Head(result) IN
         IF IsDict(it.v)
         THEN <<KV(it.k, CleanRecord(it.k, it.v))>> \o Cleaned(Tail(result))
         ELSE Cleaned(Tail(result))

\* mutant: a literal record does not replace an entry already collected
StoreLiteral_KeepFirst(result, key, value) ==
    IF DictHas(result, key) THEN result ELSE DictSet(result, key, value)

\* line 64: result[key] = value
StoreLiteral(result, key, value) == DictSet(result, key, value)

RECURSIVE normalize_licenses(_), ScanItems(_, _, _), ScanItems_KeepAll(_, _, _)

\* mutant: a value of neither shape is kept under its key instead of dropped
ScanItems_KeepAll(items, i, result) ==
    IF i > Len(items) THEN result
    ELSE LET key == items[i].k
             value == items[i].v
         IN  IF IsStructuralKey(key) THEN ScanItems_KeepAll(items, i + 1, result)
             ELSE IF IsEntity(value)
             THEN ScanItems_KeepAll(items, i + 1, StoreLiteral(result, key, value))
             ELSE IF IsWrapper(value)
             THEN ScanItems_KeepAll(items, i + 1,
                                    DictUpdate(result, normalize_licenses(value)))
             ELSE ScanItems_KeepAll(items, i + 1, DictSet(result, key, value))

\* lines 60-69: the loop over obj.items() from item i on
ScanItems(items, i, result) ==
    IF i > Len(items) THEN result
    ELSE LET key == items[i].k
             value == items[i].v
         IN  IF IsStructuralKey(key) THEN ScanItems(items, i + 1, result)
             ELSE IF IsEntity(value)
             THEN ScanItems(items, i + 1, StoreLiteral(result, key, value))
             ELSE IF IsWrapper(value)
             THEN ScanItems(items, i + 1,
                            DictUpdate(result, normalize_licenses(value)))
             ELSE ScanItems(items, i + 1, result)

\* mutant: a list is walked as if its elements were documents
RECURSIVE MergeAll(_)
MergeAll(a) ==
    IF a = <<>> THEN <<>>
    ELSE DictUpdate(normalize_licenses(Head(a)), MergeAll(Tail(a)))
normalize_licenses_Lists(obj) ==
    IF obj.t = "arr" THEN MergeAll(obj.a)
    ELSE IF ~IsDict(obj) THEN <<>>
    ELSE LET rec == DictGet(obj.kv, "record", Null)
             r1 == IF IsDict(rec) THEN DictUpdate(<<>>, normalize_licenses(rec))
                   ELSE <<>>
             licenses == DictGet(obj.kv, "licenses", Null)
             r2 == IF IsDict(licenses)
                   THEN DictUpdate(r1, normalize_licenses(licenses))
                   ELSE r1
         IN  Cleaned(ScanItems(obj.kv, 1, r2))

\* lines 46-84
normalize_licenses(obj) ==
    IF ~IsDict(obj) THEN <<>>
    ELSE LET rec == DictGet(obj.kv, "record", Null)
             r1 == IF IsDict(rec) THEN DictUpdate(<<>>, normalize_licenses(rec))
                   ELSE <<>>
             licenses == DictGet(obj.kv, "licenses", Null)
             r2 == IF IsDict(licenses)
                   THEN DictUpdate(r1, normalize_licenses(licenses))
                   ELSE r1
         IN  Cleaned(ScanItems(obj.kv, 1, r2))

-----------------------------------------------------------------------------
(* Documents handed to the normalizer *)

MaxWrap == 2

Ids == {"a", "b"}

\* values found under an identifier
EK == Obj(<<KV("key", Str("K1"))>>)
EF == Obj(<<KV("status", Str("inactive")), KV("expiresAt", Str("2025")),
            KV("hardwareId", Str("HW")), KV("periodDays", Num(7)),
            KV("allowedProviders", Arr(<<Str("p")>>)), KV("createdAt", Str("2024"))>>)
EH == Obj(<<KV("hardwareId", Str("HW"))>>)
EA == Obj(<<KV("ativo", Bool(FALSE)), KV("expira", Str("2025"))>>)
OP == Obj(<<KV("foo", Str("x"))>>)
SV == Str("x")
EW == Obj(<<KV("key", Str("K2")),
            KV("record", Obj(<<KV("b", Obj(<<KV("key", Str("K3"))>>))>>))>>)
WR == Obj(<<KV("record", Obj(<<KV("b", Obj(<<KV("status", Str("s"))>>))>>))>>)
WM == Obj(<<KV("metadata", Obj(<<KV("id", Str("m"))>>)),
            KV("a", Obj(<<KV("periodDays", Num(1))>>))>>)

LeafVals == {EK, EF, EH, EA, OP, SV, EW, WR, WM}

FlatItems ==
    {<<>>}
    \cup {<<KV(k, v)>> : k \in Ids, v \in LeafVals}
    \cup {<<KV(k[1], v[1]), KV(k[2], v[2])>> :
            k \in {q \in Ids \X Ids : q[1] # q[2]}, v \in LeafVals \X LeafVals}

\* the document's own "record" item
RecOpts ==
    { <<>>,
      <<KV("record", Str("x"))>>,
      <<KV("record", Obj(<<KV("a", Obj(<<KV("key", Str("R1"))>>))>>))>>,
      <<KV("record", Obj(<<KV("key", Str("R2")),
                           KV("b", Obj(<<KV("status", Str("r"))>>))>>))>> }

\* the document's own "licenses" item
LicOpts ==
    { <<>>,
      <<KV("licenses", Obj(<<KV("a", Obj(<<KV("key", Str("L1"))>>))>>))>> }

NonDicts == {Null, Str("x"), Num(1), Arr(<<Obj(<<KV("a", EK)>>)>>)}

BaseDocs ==
    {Obj(r \o f \o l) : r \in RecOpts, f \in FlatItems, l \in LicOpts} \cup NonDicts

\* the envelope the store puts around a document: {"record": d, "metadata": ...}
PlainMeta == Obj(<<KV("id", Str("bin")), KV("createdAt", Str("2024"))>>)
OddMeta == Obj(<<KV("status", Str("ok")),
                 KV("record", Obj(<<KV("a", Obj(<<KV("key", Str("M1"))>>))>>))>>)
WrapForms == {"rec", "rec_meta", "meta_rec"}
Envelope(form, d) ==
    IF form = "rec" THEN Obj(<<KV("record", d)>>)
    ELSE IF form = "rec_meta" THEN Obj(<<KV("record", d), KV("metadata", PlainMeta)>>)
    ELSE Obj(<<KV("metadata", OddMeta), KV("record", d)>>)

-----------------------------------------------------------------------------
(* The panel: request slots *)

Procs == {1, 2}

\* an optional field: None, or a value
None == [has |-> FALSE, v |-> <<>>]
\* the request carries no session_token cookie
NoCookie == [has |-> FALSE, v |-> ""]
Some(x) == [has |-> TRUE, v |-> x]

\* what a request presents: the session_token cookie of a panel request, the
\* token query parameter and the X-Repair-Token header of a repair request,
\* the password of a login
ByCookie(session_token) ==
    [cookie |-> session_token, token |-> "", x_repair_token |-> "", password |-> ""]
ByToken(token, x_repair_token) ==
    [cookie |-> NoCookie, token |-> token, x_repair_token |-> x_repair_token,
     password |-> ""]
ByPassword(password) ==
    [cookie |-> NoCookie, token |-> "", x_repair_token |-> "", password |-> password]

\* the outcome of a GET or a PUT: not issued, succeeded, failed
No == "no"
Ok == "ok"
Failed == "failed"
Outcome(ok) == IF ok THEN Ok ELSE Failed

\* a request slot: pc is "idle", "put" (document read, PUT pending) or "done"
\* (answered; the slot keeps what the request presented, the outcomes of its
\* GET and its PUT, what it read and wrote, the session token it set)
Idle ==
    [pc |-> "idle", op |-> "", by |-> ByCookie(NoCookie), key |-> "", got |-> No,
     sent |-> No, read |-> <<>>, data |-> <<>>, resp |-> "", putNo |-> 0,
     issued |-> ""]

PanelOff ==
    /\ store = Obj(<<>>)
    /\ active_sessions = {}
    /\ REPAIR_TOKEN = ""
    /\ req = [p \in Procs |-> Idle]
    /\ started = 0
    /\ puts = 0
    /\ sites = Obj(<<>>)
    /\ SITES_CONFIGURED = FALSE

-----------------------------------------------------------------------------
(* Normalizer runs: one document in, normalized, and normalized again *)

InitNorm ==
    /\ base \in BaseDocs
    /\ doc = base
    /\ wraps = 0
    /\ out = <<>>
    /\ out2 = <<>>
    /\ phase = "in"
    /\ PanelOff

\* the document comes back inside one more {"record": ..., "metadata": ...}
Wrap ==
    /\ phase = "in"
    /\ wraps < MaxWrap
    /\ \E form \in WrapForms : doc' = Envelope(form, doc)
    /\ wraps' = wraps + 1
    /\ UNCHANGED <<base, out, out2, phase, panelVars>>

Normalize ==
    /\ phase = "in"
    /\ out' = normalize_licenses(doc)
    /\ phase' = "out"
    /\ UNCHANGED <<doc, base, wraps, out2, panelVars>>

\* the output is fed back as a document
Renormalize ==
    /\ phase = "out"
    /\ out2' = normalize_licenses(Obj(out))
    /\ phase' = "again"
    /\ UNCHANGED <<doc, base, wraps, out, panelVars>>

NextNorm == Wrap \/ Normalize \/ Renormalize

SpecNorm == InitNorm /\ [][NextNorm]_vars

-----------------------------------------------------------------------------
(* Vocabulary of the claims about the normalizer *)

\* every (key, value) item of a document, at any depth below any key
RECURSIVE AllItems(_)
AllItems(v) ==
    IF ~IsDict(v) THEN {}
    ELSE UNION { {<<v.kv[i].k, v.kv[i].v>>} \cup AllItems(v.kv[i].v) : i \in DOMAIN v.kv }

\* the document and the objects below it reached through "record" keys alone
RECURSIVE RecordChain(_)
RecordChain(v) ==
    IF ~IsDict(v) THEN {}
    ELSE {v} \cup RecordChain(DictGet(v.kv, "record", Null))

HasAnyField(v, fields) == IsDict(v) /\ \E f \in fields : DictHas(v.kv, f)

\* the recognized fields as the specification lists them
ListedFields ==
    {"expiresAt", "expira", "hardwareId", "hwid", "active", "ativo",
     "key", "status", "periodDays"}
\* the recognized fields the traversal tests for
TestedFields == {"key", "status", "expiresAt", "periodDays"}

WrapperKeys == {"record", "metadata"}
ReservedKeys == {"record", "metadata", "licenses"}

CanonFields ==
    {"key", "status", "hardwareId", "expiresAt", "periodDays",
     "allowedProviders", "createdAt"}

\* the documented default of a canonical field (the key defaults to the identifier)
FieldDefault(f, id) ==
    CASE f = "key" -> Str(id)
      [] f = "status" -> Str("active")
      [] f = "hardwareId" -> Null
      [] f = "expiresAt" -> Str("")
      [] f = "periodDays" -> Num(30)
      [] f = "allowedProviders" -> Arr(<<>>)
      [] f = "createdAt" -> Str("")

\* rec is the canonical form of the record v found under identifier id
IsCanonOf(rec, id, v) ==
    /\ IsDict(rec) /\ IsDict(v)
    /\ DictKeys(rec.kv) = CanonFields
    /\ Len(rec.kv) = Cardinality(CanonFields)
    /\ \A f \in CanonFields :
          DictGet(rec.kv, f, Null) = DictGet(v.kv, f, FieldDefault(f, id))

Normalized == phase \in {"out", "again"}

-----------------------------------------------------------------------------
(* C1 *)

-----------------------------------------------------------------------------
(* C2 *)

\* C2 as stated: no object that contains a record or metadata key is stored
\* as an output record under its own key, i.e. every output entry is the
\* canonical form of some object of the document, found under that key, that
\* has no wrapper key.
C2_AsStated ==
    Normalized =>
        \A i \in DOMAIN out :
            \E it \in AllItems(doc) :
                /\ it[1] = out[i].k
                /\ ~HasAnyField(it[2], WrapperKeys)
                /\ IsCanonOf(out[i].v, it[1], it[2])

\* C2 amended: an object that contains a record or metadata key and none of
\* key, status, expiresAt, periodDays is never stored under its own key: every
\* output entry is the canonical form of an object of the document, found
\* under that key, that has one of those four fields (such an object is
\* stored even when it also contains a wrapper key).
C2_PureWrappersNeverStored ==
    Normalized =>
        \A i \in DOMAIN out :
            \E it \in AllItems(doc) :
                /\ it[1] = out[i].k
                /\ HasAnyField(it[2], TestedFields)
                /\ IsCanonOf(out[i].v, it[1], it[2])

\* a pure wrapper under "a" was unwrapped: its inner "b" is in the output and
\* "a", which occurs nowhere else, is not
C2_Witness ==
    /\ phase = "out"
    /\ IsDict(doc)
    /\ \E i \in DOMAIN doc.kv :
          /\ doc.kv[i].k = "a"
          /\ HasAnyField(doc.kv[i].v, WrapperKeys)
          /\ ~HasAnyField(doc.kv[i].v, TestedFields)
    /\ ~DictHas(out, "a")
    /\ DictHas(out, "b")

-----------------------------------------------------------------------------
(* C3 *)

UniqueKeys(d) == \A i, j \in DOMAIN d : d[i].k = d[j].k => i = j

\* identifier id occurs inside the document's own record wrapper and as a
\* literal record (item i) beside it
Collides(d, i) ==
    /\ IsDict(d)
    /\ i \in DOMAIN d.kv
    /\ d.kv[i].k \notin ReservedKeys
    /\ HasAnyField(d.kv[i].v, TestedFields)
    /\ IsDict(DictGet(d.kv, "record", Null))
    /\ \E it \in AllItems(DictGet(d.kv, "record", Null)) : it[1] = d.kv[i].k

\* a sibling after item i that is descended into as a wrapper and holds the
\* identifier of item i somewhere inside
LaterWrapperHolds(d, i) ==
    \E j \in DOMAIN d.kv :
        /\ j > i
        /\ d.kv[j].k \notin ReservedKeys
        /\ HasAnyField(d.kv[j].v, ReservedKeys)
        /\ ~HasAnyField(d.kv[j].v, TestedFields)
        /\ \E it \in AllItems(d.kv[j].v) : it[1] = d.kv[i].k

\* C3 as stated: one entry per identifier, and when an identifier occurs both
\* inside the record wrapper and as a literal record beside it, the output
\* entry is the canonical form of the literal sibling alone.
C3_AsStated ==
    Normalized =>
        /\ UniqueKeys(out)
        /\ \A i \in DOMAIN (IF IsDict(doc) THEN doc.kv ELSE <<>>) :
              Collides(doc, i) =>
                  IsCanonOf(DictGet(out, doc.kv[i].k, Null), doc.kv[i].k, doc.kv[i].v)

\* C3 amended: one entry per identifier, and when an identifier occurs both
\* inside the record wrapper and as a literal record beside it, the output
\* entry is the canonical form of the literal sibling alone, unless a wrapper
\* sibling that comes later in the object's key order also holds the
\* identifier (that later entry then wins).
C3_LiteralSiblingWins ==
    Normalized =>
        /\ UniqueKeys(out)
        /\ \A i \in DOMAIN (IF IsDict(doc) THEN doc.kv ELSE <<>>) :
              (Collides(doc, i) /\ ~LaterWrapperHolds(doc, i)) =>
                  IsCanonOf(DictGet(out, doc.kv[i].k, Null), doc.kv[i].k, doc.kv[i].v)

\* "a" is under the record wrapper with one key value and beside it with
\* another: the output carries the sibling's
C3_Witness ==
    /\ phase = "out"
    /\ wraps = 0
    /\ \E i \in DOMAIN (IF IsDict(doc) THEN doc.kv ELSE <<>>) :
          /\ Collides(doc, i)
          /\ doc.kv[i].k = "a"
          /\ doc.kv[i].v = EK
          /\ DictGet(DictGet(doc.kv, "record", Null).kv, "a", Null)
                = Obj(<<KV("key", Str("R1"))>>)
    /\ DictGet(DictGet(out, "a", Null).kv, "key", Null) = Str("K1")

-----------------------------------------------------------------------------
(* C4 *)

\* C4: normalize_licenses(normalize_licenses(d)) equals normalize_licenses(d):
\* the output fed back as a document yields the same identifiers with the
\* same field values.
C4_Idempotent == phase = "again" => DictEq(out2, out)

\* a wrapped document with two identifiers went through both passes
C4_Witness ==
    /\ phase = "again"
    /\ wraps > 0
    /\ Len(out) = 2
    /\ Len(out2) = 2

-----------------------------------------------------------------------------
(* C5 *)

ListedDefaultFields ==
    {"status", "periodDays", "allowedProviders", "hardwareId", "expiresAt", "createdAt"}

\* C5: every output value is an object with every canonical field; a field
\* present in the input record is passed through unchanged, a missing one has
\* its documented default (status "active", periodDays 30, allowedProviders
\* empty, hardwareId null, expiresAt and createdAt "").
C5_CanonicalShape ==
    Normalized =>
        \A i \in DOMAIN out :
            /\ IsDict(out[i].v)
            /\ DictKeys(out[i].v.kv) = CanonFields
            /\ \E it \in AllItems(doc) :
                  /\ it[1] = out[i].k
                  /\ IsDict(it[2])
                  /\ \A f \in CanonFields :
                        IF DictHas(it[2].kv, f)
                        THEN DictGet(out[i].v.kv, f, Null) = DictGet(it[2].kv, f, Null)
                        ELSE f \in ListedDefaultFields =>
                                DictGet(out[i].v.kv, f, Null) = FieldDefault(f, it[1])

\* a record with only a key came out with the six defaults, and a record
\* with six fields came out with them unchanged
C5_Witness ==
    /\ phase = "out"
    /\ doc = Obj(<<KV("a", EK), KV("b", EF)>>)
    /\ DictGet(out, "a", Null).kv =
          << KV("key", Str("K1")), KV("status", Str("active")), KV("hardwareId", Null),
             KV("expiresAt", Str("")), KV("periodDays", Num(30)),
             KV("allowedProviders", Arr(<<>>)), KV("createdAt", Str("")) >>
    /\ DictGet(DictGet(out, "b", Null).kv, "periodDays", Null) = Num(7)

-----------------------------------------------------------------------------
(* C6 *)

\* C6: a document that is not an object (null, scalar, array), or the empty
\* object, normalizes to the empty mapping.
C6_NonObjectsGiveEmpty ==
    Normalized => ((~IsDict(doc) \/ doc = Obj(<<>>)) => out = <<>>)

\* an array holding a license document was normalized
C6_Witness ==
    /\ phase = "out"
    /\ doc.t = "arr"
    /\ out = <<>>

-----------------------------------------------------------------------------
(* C7 *)

\* C7: n >= 1 wrappers {"record": X, "metadata": M} around X normalize to the
\* same mapping as X, for every M.
C7_RecordWrappingTransparent ==
    (Normalized /\ wraps > 0) => DictEq(out, normalize_licenses(base))

\* an object with a record was wrapped twice, the outer wrapper carrying a
\* metadata that itself looks like a record
C7_Witness ==
    /\ phase = "out"
    /\ wraps = 2
    /\ IsDict(base)
    /\ DictGet(doc.kv, "metadata", Null) = OddMeta
    /\ out # <<>>

-----------------------------------------------------------------------------
(* C8 *)

\* C8: every identifier of the output is the key of some object of the
\* document that has at least one recognized field; a key that only ever
\* holds a non-object, or an object with neither a recognized field nor a
\* wrapper key, is not in the output.
C8_DropsUnrecognized ==
    Normalized =>
        /\ \A i \in DOMAIN out :
              \E it \in AllItems(doc) :
                  it[1] = out[i].k /\ HasAnyField(it[2], ListedFields)
        /\ \A k \in Ids :
              (\A it \in AllItems(doc) :
                  it[1] = k =>
                      (~IsDict(it[2])
                         \/ ~(HasAnyField(it[2], ListedFields)
                                \/ HasAnyField(it[2], ReservedKeys))))
                  => ~DictHas(out, k)

\* "a" holds an object with no recognized field and "b" a string: both dropped
C8_Witness ==
    /\ phase = "out"
    /\ doc = Obj(<<KV("a", OP), KV("b", SV)>>)
    /\ out = <<>>

-----------------------------------------------------------------------------
(* Form text: a field is a sequence of tokens, each " " (white space), ","  *)
(* or a word                                                                *)

RECURSIVE LStrip(_)
LStrip(x) == IF x # <<>> /\ Head(x) = " " THEN LStrip(Tail(x)) ELSE x

RECURSIVE RStrip(_)
RStrip(x) ==
    IF x # <<>> /\ x[Len(x)] = " " THEN RStrip(SubSeq(x, 1, Len(x) - 1)) ELSE x

\* str.strip()
strip(x) == RStrip(LStrip(x))

\* the string a token sequence spells
RECURSIVE Text(_)
Text(x) == IF x = <<>> THEN "" ELSE Head(x) \o Text(Tail(x))

\* str.split(","), cur being the piece under way
RECURSIVE Split(_, _)
Split(x, cur) ==
    IF x = <<>> THEN <<cur>>
    ELSE IF Head(x) = "," THEN <<cur>> \o Split(Tail(x), <<>>)
    ELSE Split(Tail(x), Append(cur, Head(x)))

\* line 524: [p.strip() for p in providers.split(",") if p.strip()]
RECURSIVE StripAll(_)
StripAll(pieces) ==
    IF pieces = <<>> THEN <<>>
    ELSE (IF strip(Head(pieces)) # <<>> THEN <<Str(Text(strip(Head(pieces))))>> ELSE <<>>)
         \o StripAll(Tail(pieces))
ProvidersList(providers) == Arr(StripAll(Split(providers, <<>>)))

-----------------------------------------------------------------------------
(* The panel: configuration, inputs *)

MaxRequests == 2

PAINEL_PASSWORD == "admin123"

Tokens == {"t1"}
Cookies == {NoCookie, Some(""), Some("t1"), Some("zz")}
Passwords == {"admin123", "wrong"}
RepairTokens == {"", "s3", "bad"}
ExpiresInputs == {"2030"}
NowStamps == {"2026-11-03T00:00:00"}
GenKeys == {"MK-30D-1", "MK-30D-2"}
CriarKeys ==
    {None, Some(<<>>), Some(<<" ", "a", " ">>), Some(<<"c">>), Some(<<"record">>)}
EditKeys == {<<"a">>, <<" ", "b">>, <<"zz">>}
ProviderInputs == {<<>>, <<" ", "p1", ",", " ", ",", "p2", " ">>}

Rec(key, hw, exp) ==
    Obj(<< KV("key", Str(key)), KV("status", Str("active")), KV("hardwareId", hw),
           KV("expiresAt", Str(exp)), KV("periodDays", Num(DefaultPeriodDays)),
           KV("allowedProviders", Arr(<<Str("p0")>>)), KV("createdAt", Str("2025")) >>)

\* documents the bin may hold when the panel starts
StoreDocs ==
    { Obj(<<KV("a", Rec("a", Str("HW1"), "2029")), KV("b", Rec("b", Null, "2029"))>>),
      Obj(<< KV("record", Obj(<<KV("a", Obj(<<KV("key", Str("a")),
                                               KV("hardwareId", Str("HW1")),
                                               KV("expiresAt", Str("2029"))>>))>>)),
             KV("metadata", PlainMeta),
             KV("MK-30D-1", Obj(<<KV("status", Str("inactive"))>>)) >>) }

-----------------------------------------------------------------------------
(* The panel: who sends the requests *)

\* the operator: knows the panel password, sends the cookie it was given, and
\* calls repair with its token in the query parameter alone
Operator ==
    [passwords |-> {PAINEL_PASSWORD}, cookies |-> {Some("t1")},
     tokens |-> {"s3"}, headers |-> {""}]

\* any client: every password, cookie, repair token and repair header
Anyone ==
    [passwords |-> Passwords, cookies |-> Cookies,
     tokens |-> RepairTokens, headers |-> RepairTokens]

-----------------------------------------------------------------------------
(* The panel: sessions and the store *)

\* mutant: any non-empty cookie is taken for a session
check_auth_AnyCookie(session_token) == session_token.has /\ session_token.v # ""

\* lines 42-43
check_auth(session_token) ==
    session_token.has /\ session_token.v # "" /\ session_token.v \in active_sessions

\* mutant: the record is returned as stored, without normalizing it
get_bin_Raw(held) == IF IsDict(held) THEN held.kv ELSE <<>>

\* lines 91-95: GET /latest answers {"record": <document>, "metadata": ...}
get_bin(held) ==
    normalize_licenses(DictGet(Envelope("rec_meta", held).kv, "record", Obj(<<>>)))

\* mutant: the store refuses a PUT when the document changed since it was read
PutBody_IfUnchanged(held, seen, data) ==
    IF DictEq(get_bin(held), seen) THEN Obj(data) ELSE held

\* lines 104-111: PUT replaces the held document by the body, whatever it held
PutBody(held, seen, data) == Obj(data)

\* a slot whose request ended without a pending PUT; got is the outcome of
\* its GET
Ended(op, by, key, got, read, resp) ==
    [pc |-> "done", op |-> op, by |-> by, key |-> key, got |-> got, sent |-> No,
     read |-> read, data |-> <<>>, resp |-> resp, putNo |-> 0, issued |-> ""]

\* a slot whose request has read the document and is about to PUT data
Pending(op, by, key, read, data) ==
    [pc |-> "put", op |-> op, by |-> by, key |-> key, got |-> Ok, sent |-> No,
     read |-> read, data |-> data, resp |-> "", putNo |-> 0, issued |-> ""]

\* a request is taken by the lowest free slot; a slot is free before its
\* first request and once its last request has been answered
Free(p) == req[p].pc \in {"idle", "done"}
Lowest(p) ==
    /\ Free(p)
    /\ \A q \in Procs : q < p => ~Free(q)
StartOK(p) ==
    /\ Lowest(p)
    /\ started < MaxRequests

Started(p, r) ==
    /\ req' = [req EXCEPT ![p] = r]
    /\ started' = started + 1
    /\ UNCHANGED <<normVars, store, active_sessions, REPAIR_TOKEN, puts, sitesVars>>

\* a slot whose /login or /logout request has been answered; issued is the
\* session token the answer sets
SessionEnded(op, by, issued, resp) ==
    [pc |-> "done", op |-> op, by |-> by, key |-> "", got |-> No, sent |-> No,
     read |-> <<>>, data |-> <<>>, resp |-> resp, putNo |-> 0, issued |-> issued]

\* lines 591-599; session_token is what secrets.token_urlsafe returns
do_login(p, who) ==
    /\ Lowest(p)
    /\ \E password \in who.passwords, session_token \in Tokens :
          IF password = PAINEL_PASSWORD
          THEN /\ active_sessions' = active_sessions \cup {session_token}
               /\ req' = [req EXCEPT ![p] = SessionEnded("do_login", ByPassword(password),
                                                         session_token, "302 /")]
          ELSE /\ active_sessions' = active_sessions
               /\ req' = [req EXCEPT ![p] = SessionEnded("do_login", ByPassword(password),
                                                         "", "401")]
    /\ UNCHANGED <<normVars, store, REPAIR_TOKEN, started, puts, sitesVars>>

\* mutant: any logout ends every session
logout_EndsAll(p, who) ==
    /\ Lowest(p)
    /\ \E session_token \in who.cookies :
          /\ active_sessions' = {}
          /\ req' = [req EXCEPT ![p] = SessionEnded("logout", ByCookie(session_token),
                                                    "", "302 /login")]
    /\ UNCHANGED <<normVars, store, REPAIR_TOKEN, started, puts, sitesVars>>

\* lines 602-608
logout(p, who) ==
    /\ Lowest(p)
    /\ \E session_token \in who.cookies :
          /\ active_sessions' = IF session_token.has
                                THEN active_sessions \ {session_token.v}
                                ELSE active_sessions
          /\ req' = [req EXCEPT ![p] = SessionEnded("logout", ByCookie(session_token),
                                                    "", "302 /login")]
    /\ UNCHANGED <<normVars, store, REPAIR_TOKEN, started, puts, sitesVars>>

-----------------------------------------------------------------------------
(* The panel: license handlers, each up to its PUT *)

\* lines 469-477
NewLicense(license_key, expires_at, now) ==
    Obj(<< KV("key", Str(license_key)), KV("status", Str("active")),
           KV("hardwareId", Null), KV("expiresAt", Str(expires_at)),
           KV("periodDays", Num(DefaultPeriodDays)), KV("allowedProviders", Arr(<<>>)),
           KV("createdAt", Str(now)) >>)

\* data[license_key][field] = value
SetField(data, license_key, field, value) ==
    DictSet(data, license_key,
            Obj(DictSet(DictGet(data, license_key, Null).kv, field, value)))

\* mutant: criar stores under the typed key without looking it up
criar_Overwrites(p, who) ==
    /\ StartOK(p)
    /\ \E session_token \in who.cookies, expires_at \in ExpiresInputs,
          form_key \in CriarKeys, generated \in GenKeys, now \in NowStamps,
          readOK \in BOOLEAN :
          LET by == ByCookie(session_token) IN
          IF ~check_auth(session_token)
          THEN Started(p, Ended("criar", by, "", No, <<>>, "302 /login"))
          ELSE IF ~readOK THEN Started(p, Ended("criar", by, "", Failed, <<>>, "500"))
          ELSE LET data == get_bin(store)
                   typed == Text(strip(IF form_key.has THEN form_key.v ELSE <<>>))
                   license_key == IF typed # "" THEN typed ELSE generated
               IN  Started(p, Pending("criar", by, license_key, data,
                              DictSet(data, license_key,
                                      NewLicense(license_key, expires_at, now))))

\* lines 450-485; generated is what generate_license_key returns when the
\* regeneration loop (lines 463-466) ends, readOK whether the GET succeeded
criar(p, who) ==
    /\ StartOK(p)
    /\ \E session_token \in who.cookies, expires_at \in ExpiresInputs,
          form_key \in CriarKeys, generated \in GenKeys, now \in NowStamps,
          readOK \in BOOLEAN :
          LET by == ByCookie(session_token) IN
          IF ~check_auth(session_token)
          THEN Started(p, Ended("criar", by, "", No, <<>>, "302 /login"))
          ELSE IF ~readOK THEN Started(p, Ended("criar", by, "", Failed, <<>>, "500"))
          ELSE LET data == get_bin(store)
                   typed == Text(strip(IF form_key.has THEN form_key.v ELSE <<>>))
                   license_key == IF typed # "" /\ ~DictHas(data, typed)
                                  THEN typed ELSE generated
               IN  /\ ~DictHas(data, license_key)
                   /\ Started(p, Pending("criar", by, license_key, data,
                                 DictSet(data, license_key,
                                         NewLicense(license_key, expires_at, now))))

\* mutant: the handler's change is made to every record (excluir empties the
\* document, the others clear every hardwareId)
Changed_EveryRecord(op, data, license_key, arg) ==
    IF op = "excluir" THEN <<>>
    ELSE [i \in DOMAIN data |->
             KV(data[i].k, Obj(DictSet(data[i].v.kv, "hardwareId", Null)))]

\* what each single-record handler does to data at license_key (lines 502,
\* 524-525, 546, 567); arg is the handler's other form field
Changed(op, data, license_key, arg) ==
    CASE op = "editar" -> SetField(data, license_key, "expiresAt", Str(arg))
      [] op = "editar_provedores" ->
            SetField(data, license_key, "allowedProviders", ProvidersList(arg))
      [] op = "limpar_hwid" -> SetField(data, license_key, "hardwareId", Null)
      [] op = "excluir" -> DictDel(data, license_key)

\* mutant: a failed GET is taken for an empty document and the request is
\* answered as if nothing was wrong
EditRequest_IgnoresReadError(p, op, session_token, form_key, readOK, arg) ==
    LET by == ByCookie(session_token) IN
    IF ~check_auth(session_token)
    THEN Started(p, Ended(op, by, "", No, <<>>, "302 /login"))
    ELSE LET data == IF readOK THEN get_bin(store) ELSE <<>>
             license_key == Text(strip(form_key))
         IN  IF DictHas(data, license_key)
             THEN Started(p, Pending(op, by, license_key, data,
                                     Changed(op, data, license_key, arg)))
             ELSE Started(p, Ended(op, by, license_key, Outcome(readOK), data, "302 /"))

\* the shape shared by editar, editar_provedores, limpar_hwid and excluir:
\* read, change data at license_key if it is there and PUT, else just redirect
EditRequest(p, op, session_token, form_key, readOK, arg) ==
    LET by == ByCookie(session_token) IN
    IF ~check_auth(session_token)
    THEN Started(p, Ended(op, by, "", No, <<>>, "302 /login"))
    ELSE IF ~readOK THEN Started(p, Ended(op, by, "", Failed, <<>>, "500"))
    ELSE LET data == get_bin(store)
             license_key == Text(strip(form_key))
         IN  IF DictHas(data, license_key)
             THEN Started(p, Pending(op, by, license_key, data,
                                     Changed(op, data, license_key, arg)))
             ELSE Started(p, Ended(op, by, license_key, Ok, data, "302 /"))

\* lines 488-507
editar(p, who) ==
    /\ StartOK(p)
    /\ \E session_token \in who.cookies, form_key \in EditKeys,
          expires_at \in ExpiresInputs, readOK \in BOOLEAN :
          EditRequest(p, "editar", session_token, form_key, readOK, expires_at)

\* lines 510-530
editar_provedores(p, who) ==
    /\ StartOK(p)
    /\ \E session_token \in who.cookies, form_key \in EditKeys,
          providers \in ProviderInputs, readOK \in BOOLEAN :
          EditRequest(p, "editar_provedores", session_token, form_key, readOK, providers)

\* lines 533-551
limpar_hwid(p, who) ==
    /\ StartOK(p)
    /\ \E session_token \in who.cookies, form_key \in EditKeys, readOK \in BOOLEAN :
          EditRequest(p, "limpar_hwid", session_token, form_key, readOK, "")

\* lines 554-572
excluir(p, who) ==
    /\ StartOK(p)
    /\ \E session_token \in who.cookies, form_key \in EditKeys, readOK \in BOOLEAN :
          EditRequest(p, "excluir", session_token, form_key, readOK, "")

\* line 619: provided = token or x_repair_token
Provided(token, x_repair_token) == IF token # "" THEN token ELSE x_repair_token

\* mutant: repair reads the document before it looks at the token
repair_ReadsFirst(p, who) ==
    /\ StartOK(p)
    /\ \E token \in who.tokens, x_repair_token \in who.headers, readOK \in BOOLEAN :
          LET by == ByToken(token, x_repair_token) IN
          IF ~readOK THEN Started(p, Ended("repair", by, "", Failed, <<>>, "500"))
          ELSE IF REPAIR_TOKEN = "" \/ Provided(token, x_repair_token) # REPAIR_TOKEN
          THEN Started(p, Ended("repair", by, "", Ok, get_bin(store), "403"))
          ELSE Started(p, Pending("repair", by, "", get_bin(store), get_bin(store)))

\* lines 611-626
repair(p, who) ==
    /\ StartOK(p)
    /\ \E token \in who.tokens, x_repair_token \in who.headers, readOK \in BOOLEAN :
          LET by == ByToken(token, x_repair_token) IN
          IF REPAIR_TOKEN = ""
          THEN Started(p, Ended("repair", by, "", No, <<>>, "403"))
          ELSE IF Provided(token, x_repair_token) # REPAIR_TOKEN
          THEN Started(p, Ended("repair", by, "", No, <<>>, "403"))
          ELSE IF ~readOK THEN Started(p, Ended("repair", by, "", Failed, <<>>, "500"))
          ELSE Started(p, Pending("repair", by, "", get_bin(store), get_bin(store)))

\* lines 98-111, and the handler's answer after it; putOK is whether the PUT
\* succeeded (raise_for_status)
save_bin(p) ==
    /\ req[p].pc = "put"
    /\ \E putOK \in BOOLEAN :
          IF putOK
          THEN /\ store' = PutBody(store, req[p].read, req[p].data)
               /\ puts' = puts + 1
               /\ req' = [req EXCEPT ![p].pc = "done", ![p].sent = Ok,
                                     ![p].putNo = puts + 1,
                                     ![p].resp = IF req[p].op = "repair"
                                                 THEN "200" ELSE "302 /"]
          ELSE /\ req' = [req EXCEPT ![p].pc = "done", ![p].sent = Failed,
                                     ![p].resp = "500"]
               /\ UNCHANGED <<store, puts>>
    /\ UNCHANGED <<normVars, active_sessions, REPAIR_TOKEN, started, sitesVars>>

\* the license handlers, served to the operator
Init ==
    /\ doc = Null /\ base = Null /\ wraps = 0
    /\ out = <<>> /\ out2 = <<>> /\ phase = "off"
    /\ store \in StoreDocs
    /\ active_sessions = {}
    /\ REPAIR_TOKEN \in {"", "s3"}
    /\ req = [p \in Procs |-> Idle]
    /\ started = 0
    /\ puts = 0
    /\ sites = Obj(<<>>)
    /\ SITES_CONFIGURED = FALSE

Next ==
    \/ \E p \in Procs : do_login(p, Operator)
    \/ \E p \in Procs : logout(p, Operator)
    \/ \E p \in Procs : criar(p, Operator)
    \/ \E p \in Procs : editar(p, Operator)
    \/ \E p \in Procs : editar_provedores(p, Operator)
    \/ \E p \in Procs : limpar_hwid(p, Operator)
    \/ \E p \in Procs : excluir(p, Operator)
    \/ \E p \in Procs : repair(p, Operator)
    \/ \E p \in Procs : save_bin(p)

Spec == Init /\ [][Next]_vars

-----------------------------------------------------------------------------
(* The panel: sites handlers, each served in one step by a request slot *)

\* lines 726-735: the form fields a site keeps, in the order add_site stores them
SiteFields ==
    << "dominio", "url", "valueInput", "generateButton", "pixCode", "copyButton",
       "closeModalButton", "openFormButton" >>

\* a submitted form: dominio and url as typed, the other fields left empty
SiteForm(dominio, url) ==
    [f \in {SiteFields[i] : i \in DOMAIN SiteFields} |->
        IF f = "dominio" THEN dominio ELSE IF f = "url" THEN url ELSE <<>>]

\* lines 726-736: every field stripped, "ativo": True
NewSite(form) ==
    Obj([i \in DOMAIN SiteFields |->
            KV(SiteFields[i], Str(Text(strip(form[SiteFields[i]]))))]
        \o <<KV("ativo", Bool(TRUE))>>)

SiteNames == {<<"x">>, <<" ", "z">>}
SiteDomains == {<<"d9", " ">>}
SiteUrls == {<<" ", "u9">>}

\* documents the sites bin may hold when the panel starts
SiteDocs ==
    { Obj(<< KV("x", NewSite(SiteForm(<<"d1">>, <<"u1">>))),
             KV("y", NewSite(SiteForm(<<>>, <<"u2">>))) >>),
      Arr(<<>>) }

\* lines 114-124: {} when not configured, when the GET fails (every exception
\* is swallowed) and when the record is not a dict
get_sites(readOK) ==
    IF ~SITES_CONFIGURED THEN <<>>
    ELSE IF ~readOK THEN <<>>
    ELSE LET data == DictGet(Envelope("rec_meta", sites).kv, "record", Obj(<<>>))
         IN  IF IsDict(data) THEN data.kv ELSE <<>>

\* lines 127-143: the document the sites bin holds after save_sites(data);
\* nothing is sent when not configured, a failed PUT is swallowed
save_sites(data, putOK) ==
    IF ~SITES_CONFIGURED THEN sites
    ELSE IF putOK THEN Obj(data) ELSE sites

\* a slot whose sites request has been answered: got and sent are the outcomes
\* of its GET and its PUT, read what get_sites returned, data the PUT body
SiteEnded(op, session_token, name, got, sent, read, data, resp) ==
    [pc |-> "done", op |-> op, by |-> ByCookie(session_token), key |-> name,
     got |-> got, sent |-> sent, read |-> read, data |-> data, resp |-> resp,
     putNo |-> 0, issued |-> ""]

SiteStarted(p, r, held) ==
    /\ req' = [req EXCEPT ![p] = r]
    /\ sites' = held
    /\ started' = started + 1
    /\ UNCHANGED <<normVars, store, active_sessions, REPAIR_TOKEN, puts,
                   SITES_CONFIGURED>>

\* lines 708-740; the answer of save_sites is not looked at (line 739)
add_site(p, who) ==
    /\ StartOK(p)
    /\ \E session_token \in who.cookies, site_name \in SiteNames,
          dominio \in SiteDomains, url \in SiteUrls,
          readOK \in BOOLEAN, putOK \in BOOLEAN :
          LET name == Text(strip(site_name)) IN
          IF ~check_auth(session_token)
          THEN SiteStarted(p, SiteEnded("add_site", session_token, name, No, No,
                                        <<>>, <<>>, "302 /login"), sites)
          ELSE IF ~SITES_CONFIGURED
          THEN SiteStarted(p, SiteEnded("add_site", session_token, name, No, No,
                                        <<>>, <<>>, "302 /sites"), sites)
          ELSE LET sites_data == get_sites(readOK)
                   body == DictSet(sites_data, name, NewSite(SiteForm(dominio, url)))
               IN  SiteStarted(p, SiteEnded("add_site", session_token, name,
                                            Outcome(readOK), Outcome(putOK),
                                            sites_data, body, "302 /sites"),
                               save_sites(body, putOK))

\* lines 743-755
delete_site(p, who) ==
    /\ StartOK(p)
    /\ \E session_token \in who.cookies, site_name \in SiteNames,
          readOK \in BOOLEAN, putOK \in BOOLEAN :
          LET name == Text(strip(site_name)) IN
          IF ~check_auth(session_token)
          THEN SiteStarted(p, SiteEnded("delete_site", session_token, name, No,
                                        No, <<>>, <<>>, "302 /login"), sites)
          ELSE IF ~SITES_CONFIGURED
          THEN SiteStarted(p, SiteEnded("delete_site", session_token, name, No,
                                        No, <<>>, <<>>, "302 /sites"), sites)
          ELSE LET sites_data == get_sites(readOK) IN
               IF DictHas(sites_data, name)
               THEN SiteStarted(p, SiteEnded("delete_site", session_token, name,
                                             Outcome(readOK), Outcome(putOK),
                                             sites_data, DictDel(sites_data, name),
                                             "302 /sites"),
                                save_sites(DictDel(sites_data, name), putOK))
               ELSE SiteStarted(p, SiteEnded("delete_site", session_token, name,
                                             Outcome(readOK), No, sites_data, <<>>,
                                             "302 /sites"),
                                sites)

-----------------------------------------------------------------------------
(* The whole panel, served to any client *)

InitPanel ==
    /\ doc = Null /\ base = Null /\ wraps = 0
    /\ out = <<>> /\ out2 = <<>> /\ phase = "off"
    /\ store \in {d \in StoreDocs : ~DictHas(d.kv, "record")}
    /\ active_sessions = {}
    /\ REPAIR_TOKEN \in {"", "s3"}
    /\ req = [p \in Procs |-> Idle]
    /\ started = 0
    /\ puts = 0
    /\ sites \in SiteDocs
    /\ SITES_CONFIGURED \in BOOLEAN
    /\ SITES_CONFIGURED \/ IsDict(sites)

\* one worker serves the license requests, one at a time
NextPanel ==
    \/ do_login(1, Anyone)
    \/ logout(1, Anyone)
    \/ criar(1, Anyone)
    \/ editar(1, Anyone)
    \/ editar_provedores(1, Anyone)
    \/ limpar_hwid(1, Anyone)
    \/ excluir(1, Anyone)
    \/ repair(1, Anyone)
    \/ save_bin(1)
    \/ add_site(1, Anyone)
    \/ delete_site(1, Anyone)

SpecPanel == InitPanel /\ [][NextPanel]_vars

-----------------------------------------------------------------------------
(* C9 *)

\* C9: every document a license handler has written is a flat mapping that
\* get_bin reads back exactly as written, no identifier lost or altered.
C9_WrittenDocumentReadsBack ==
    puts > 0 =>
        /\ IsDict(store)
        /\ DictEq(get_bin(store), store.kv)

-----------------------------------------------------------------------------
(* C10 *)

FieldOf(data, license_key, field) ==
    DictGet(DictGet(data, license_key, Obj(<<>>)).kv, field, Null)

\* p and q are answered editar requests on different identifiers that read
\* the same document; p's PUT was accepted first and changed its record, and
\* q's PUT is the latest PUT
BothReadOld(p, q) ==
    /\ p # q
    /\ req[p].pc = "done" /\ req[p].op = "editar"
    /\ req[q].pc = "done" /\ req[q].op = "editar"
    /\ req[p].key # req[q].key
    /\ DictEq(req[p].read, req[q].read)
    /\ 0 < req[p].putNo /\ req[p].putNo < req[q].putNo /\ req[q].putNo = puts
    /\ FieldOf(req[p].data, req[p].key, "expiresAt")
          # FieldOf(req[p].read, req[p].key, "expiresAt")

OnlySecondChange(p, q) ==
    /\ store = Obj(req[q].data)
    /\ FieldOf(store.kv, req[q].key, "expiresAt")
          = FieldOf(req[q].data, req[q].key, "expiresAt")
    /\ FieldOf(store.kv, req[p].key, "expiresAt")
          = FieldOf(req[p].read, req[p].key, "expiresAt")

\* C10: when two editar requests on different identifiers both read the old
\* document and both PUT, the second PUT replaces the first: the store then
\* holds the second request's change and the old value where the first
\* request made its change.
C10_SecondPutOverwritesFirst ==
    \A p, q \in Procs : BothReadOld(p, q) => OnlySecondChange(p, q)

\* both requests answered "302 /", the first one's new expiresAt is gone
C10_Witness ==
    \E p, q \in Procs :
        /\ BothReadOld(p, q)
        /\ OnlySecondChange(p, q)
        /\ req[p].resp = "302 /" /\ req[q].resp = "302 /"
        /\ req[p].key = "a" /\ req[q].key = "b"
        /\ FieldOf(req[q].data, "b", "expiresAt") = Str("2030")
        /\ FieldOf(req[q].read, "b", "expiresAt") = Str("2029")
        /\ FieldOf(store.kv, "a", "expiresAt") = Str("2029")

-----------------------------------------------------------------------------
(* Vocabulary of the claims about requests *)

\* this step hands a request to slot p; req'[p] is the request and, unless a
\* PUT is pending, its answer
Took(p) ==
    /\ req[p].pc \in {"idle", "done"}
    /\ req'[p].pc # "idle"
    /\ req'[p] # req[p] \/ started' # started

\* this step issues the PUT of the license request in slot p
Put(p) == req[p].pc = "put" /\ req'[p].pc = "done"

\* the step reads and writes neither store
NoStoreAccess(p) ==
    /\ req'[p].got = No /\ req'[p].sent = No /\ req'[p].pc = "done"
    /\ store' = store /\ puts' = puts /\ sites' = sites

-----------------------------------------------------------------------------
(* C11 *)

\* the repair request carries REPAIR_TOKEN in neither channel
NoRepairToken(r) ==
    r.by.token # REPAIR_TOKEN /\ r.by.x_repair_token # REPAIR_TOKEN

\* C11: a login with a password other than the panel password is answered
\* 401 and leaves the active sessions as they were; a repair request is
\* answered 403 without any read or write of the store when no REPAIR_TOKEN
\* is configured or the request carries it in neither channel.
C11_AuthFailureChangesNothing ==
    [][\A p \in Procs : Took(p) =>
          /\ (req'[p].op = "do_login" /\ req'[p].by.password # PAINEL_PASSWORD) =>
                /\ req'[p].resp = "401"
                /\ req'[p].issued = ""
                /\ active_sessions' = active_sessions
                /\ NoStoreAccess(p)
          /\ (req'[p].op = "repair" /\ (REPAIR_TOKEN = "" \/ NoRepairToken(req'[p]))) =>
                /\ req'[p].resp = "403"
                /\ active_sessions' = active_sessions
                /\ NoStoreAccess(p)]_vars

\* a repair with a wrong token was answered 403 while a session is active and
\* a token is configured; nothing was read or written
C11_Witness ==
    /\ req[1].op = "repair" /\ req[1].resp = "403"
    /\ REPAIR_TOKEN = "s3" /\ req[1].by.token = "bad" /\ req[1].by.x_repair_token = ""
    /\ req[1].got = No /\ puts = 0
    /\ active_sessions = {"t1"}

-----------------------------------------------------------------------------
(* C12 *)

\* the repair request in slot p went past the token check
Authorised(p) == req[p].resp # "403"

\* C12: with a REPAIR_TOKEN configured, a repair request is authorised if and
\* only if its token query parameter or its X-Repair-Token header equals
\* REPAIR_TOKEN, whatever the other channel carries.
C12_EitherChannelAuthorises ==
    \A p \in Procs :
        (req[p].op = "repair" /\ REPAIR_TOKEN # "") =>
            (Authorised(p) <=> \/ req[p].by.token = REPAIR_TOKEN
                               \/ req[p].by.x_repair_token = REPAIR_TOKEN)

-----------------------------------------------------------------------------
(* C13 *)

\* this step starts an authorised repair in slot p: it has read the document
\* and holds the body it is about to PUT
RepairRead(p) == Took(p) /\ req'[p].op = "repair" /\ req'[p].pc = "put"

\* this step is the accepted PUT of the repair in slot p
RepairPut(p) == Put(p) /\ req[p].op = "repair" /\ req'[p].resp = "200"

\* slot q holds a completed repair whose PUT is the latest one
LastWriteIsRepair(q) ==
    req[q].op = "repair" /\ req[q].resp = "200" /\ req[q].putNo = puts

\* C13: an authorised repair PUTs normalize_licenses of the stored document it
\* read, and that becomes the stored document; a repair that starts when the
\* latest write is a repair's PUTs the same document again (the stored document
\* does not change) and reports the same record count.
C13_RepairFlattensOnce ==
    [][\A p \in Procs :
          /\ RepairRead(p) =>
                /\ req'[p].data = normalize_licenses(store)
                /\ \A q \in Procs : LastWriteIsRepair(q) =>
                      /\ Obj(req'[p].data) = store
                      /\ Len(req'[p].data) = Len(req[q].data)
          /\ RepairPut(p) =>
                /\ store' = Obj(req[p].data)
                /\ req'[p].data = req[p].data]_vars

\* the drifted document was repaired, and a second repair read the flat
\* document and PUT it again unchanged
C13_Witness ==
    /\ req[1].op = "repair" /\ req[1].resp = "200" /\ req[1].putNo = 2
    /\ started = 2 /\ active_sessions = {}
    /\ DictEq(req[1].read, req[1].data)
    /\ store = Obj(req[1].data)
    /\ DictKeys(store.kv) = {"a", "MK-30D-1"}
    /\ FieldOf(store.kv, "MK-30D-1", "periodDays") = Num(DefaultPeriodDays)

-----------------------------------------------------------------------------
(* C14 *)

\* slot p holds a criar request that got as far as its PUT body
CriarBody(p) == req[p].op = "criar" /\ req[p].data # <<>>

\* C14: the document criar writes holds every identifier of the normalized
\* document it read, each with its record unchanged, and exactly one more
\* identifier, the new license's, which the document read did not hold; an
\* accepted PUT stores exactly that document.
C14_CriarOnlyAdds ==
    \A p \in Procs : CriarBody(p) =>
        LET old == req[p].read
            new == req[p].data
        IN  /\ \A k \in DictKeys(old) :
                  DictHas(new, k) /\ DictGet(new, k, Null) = DictGet(old, k, Null)
            /\ DictKeys(new) \ DictKeys(old) = {req[p].key}
            /\ Len(new) = Len(old) + 1
            /\ FieldOf(new, req[p].key, "key") = Str(req[p].key)
            /\ (req[p].putNo > 0 /\ req[p].putNo = puts) => store = Obj(new)

\* the document read held a and MK-30D-1; the generator's MK-30D-1 was taken,
\* so the new license went under MK-30D-2 and the two others are stored as
\* they were read
C14_Witness ==
    \E p \in Procs :
        /\ CriarBody(p) /\ req[p].resp = "302 /" /\ req[p].putNo = puts
        /\ req[p].key = "MK-30D-2"
        /\ DictKeys(req[p].read) = {"a", "MK-30D-1"}
        /\ DictKeys(store.kv) = {"a", "MK-30D-1", "MK-30D-2"}
        /\ \A k \in {"a", "MK-30D-1"} :
              DictGet(store.kv, k, Null) = DictGet(req[p].read, k, Null)

-----------------------------------------------------------------------------
(* C15 *)

LicenseOps ==
    {"criar", "editar", "editar_provedores", "limpar_hwid", "excluir", "repair"}

\* C15: a license request whose GET fails is answered 500 at once, with no
\* PUT issued or pending; a license request whose PUT fails is answered 500,
\* not with its success answer; either way the step leaves the stored document
\* and the count of accepted PUTs as they were.
C15_TransportFailureIsHard ==
    [][\A p \in Procs :
          /\ (Took(p) /\ req'[p].op \in LicenseOps /\ req'[p].got = Failed) =>
                /\ req'[p].pc = "done" /\ req'[p].resp = "500"
                /\ req'[p].sent = No /\ req'[p].putNo = 0
                /\ store' = store /\ puts' = puts
          /\ (Put(p) /\ req[p].op \in LicenseOps /\ req'[p].sent = Failed) =>
                /\ req'[p].resp = "500" /\ req'[p].putNo = 0
                /\ store' = store /\ puts' = puts]_vars

\* an editar read the document, changed a's expiresAt in its copy, and its PUT
\* failed: answered 500, the store still holds the old expiresAt
C15_Witness ==
    \E p \in Procs :
        /\ req[p].op = "editar" /\ req[p].key = "a"
        /\ req[p].got = Ok /\ req[p].sent = Failed /\ req[p].resp = "500"
        /\ FieldOf(req[p].data, "a", "expiresAt") = Str("2030")
        /\ FieldOf(get_bin(store), "a", "expiresAt") = Str("2029")
        /\ puts = 0

-----------------------------------------------------------------------------
(* C16 *)

\* every value a session_token cookie may carry, and every token a login issues
AllTokens == Tokens \cup {c.v : c \in {c \in Cookies : c.has}}

\* this step is a successful do_login that issues t
IssuedNow(t) ==
    \E p \in Procs :
        /\ Took(p) /\ req'[p].op = "do_login"
        /\ req'[p].by.password = PAINEL_PASSWORD /\ req'[p].resp = "302 /"
        /\ req'[p].issued = t

\* this step is a logout that presents t
LoggedOutNow(t) ==
    \E p \in Procs :
        Took(p) /\ req'[p].op = "logout" /\ req'[p].by.cookie = Some(t)

\* C16: no session exists at start; after any step a token is an active
\* session exactly if the step is a successful do_login issuing it, or it was
\* active before and the step is not a logout presenting it (so no other
\* request adds or removes one); check_auth accepts a cookie exactly if it
\* carries an active token, and never a missing or empty one.
C16_SessionLifecycle ==
    /\ active_sessions = {}
    /\ [][\A t \in AllTokens :
             t \in active_sessions' <=>
                \/ IssuedNow(t)
                \/ t \in active_sessions /\ ~LoggedOutNow(t)]_vars
    /\ [](/\ active_sessions \subseteq Tokens
          /\ \A c \in Cookies : check_auth(c) <=> (c.has /\ c.v \in active_sessions)
          /\ ~check_auth(NoCookie)
          /\ ~check_auth(Some("")))

\* t1 was issued by a login; the latest request is a logout presenting another
\* token, and t1 is still accepted
C16_Witness ==
    /\ req[1].op = "logout" /\ req[1].by.cookie = Some("zz")
    /\ active_sessions = {"t1"}
    /\ check_auth(Some("t1"))
    /\ ~check_auth(Some("zz"))

-----------------------------------------------------------------------------
(* C17 *)

PanelOps ==
    {"criar", "editar", "editar_provedores", "limpar_hwid", "excluir",
     "add_site", "delete_site"}

\* the request carries no session token, or one that is not an active session
Unauthenticated(r) == ~r.by.cookie.has \/ r.by.cookie.v \notin active_sessions

\* the repair request carries the configured token in one of its channels
ValidRepairToken(r) ==
    /\ REPAIR_TOKEN # ""
    /\ r.by.token = REPAIR_TOKEN \/ r.by.x_repair_token = REPAIR_TOKEN

\* C17: a license or sites request without an active session token is
\* redirected to /login and neither reads nor writes either store; a request
\* gets as far as a PUT of the license store only with an active session or
\* as a repair with the valid token, the license store changes only by such a
\* PUT, and the sites store changes only by a sites request with an active
\* session.
C17_NoWriteWithoutSession ==
    [][/\ \A p \in Procs : Took(p) =>
             /\ (req'[p].op \in PanelOps /\ Unauthenticated(req'[p])) =>
                   /\ req'[p].resp = "302 /login"
                   /\ NoStoreAccess(p)
             /\ req'[p].pc = "put" =>
                   \/ req'[p].op \in PanelOps /\ ~Unauthenticated(req'[p])
                   \/ req'[p].op = "repair" /\ ValidRepairToken(req'[p])
             /\ sites' # sites =>
                   /\ req'[p].op \in {"add_site", "delete_site"}
                   /\ ~Unauthenticated(req'[p])
       /\ (store' # store \/ puts' # puts) => \E p \in Procs : Put(p)
       /\ sites' # sites => \E p \in Procs : Took(p)]_vars

\* with a session active and the sites store configured, an add_site carrying
\* another token was sent to /login; nothing was read or written
C17_Witness ==
    /\ req[1].op = "add_site" /\ req[1].by.cookie = Some("zz")
    /\ req[1].resp = "302 /login"
    /\ req[1].got = No /\ req[1].sent = No
    /\ active_sessions = {"t1"} /\ SITES_CONFIGURED
    /\ sites \in SiteDocs /\ puts = 0

-----------------------------------------------------------------------------
(* C18 *)

EditOps == {"editar", "editar_provedores", "limpar_hwid", "excluir"}

\* the one field each handler sets
TargetField(op) ==
    CASE op = "editar" -> "expiresAt"
      [] op = "editar_provedores" -> "allowedProviders"
      [] op = "limpar_hwid" -> "hardwareId"
      [] OTHER -> ""

\* the fields of the record stored under k
RecordFields(d, k) == DictKeys(DictGet(d, k, Obj(<<>>)).kv)

\* C18: a single-record request that read the document and whose trimmed
\* license_key is not one of its identifiers is answered without any PUT;
\* otherwise its PUT body holds every other identifier with the record read,
\* and the target either gone (excluir) or with the same fields, all as read
\* but the handler's one; an accepted PUT that is the latest stores that body.
C18_OnlyTargetTouched ==
    \A p \in Procs : (req[p].op \in EditOps /\ req[p].got = Ok) =>
        LET old == req[p].read
            new == req[p].data
            key == req[p].key
            op  == req[p].op
        IN  IF ~DictHas(old, key)
            THEN /\ req[p].pc = "done" /\ req[p].sent = No /\ req[p].putNo = 0
                 /\ new = <<>>
            ELSE /\ \A k \in DictKeys(old) \ {key} :
                       DictHas(new, k) /\ DictGet(new, k, Null) = DictGet(old, k, Null)
                 /\ DictKeys(new) = IF op = "excluir" THEN DictKeys(old) \ {key}
                                    ELSE DictKeys(old)
                 /\ op # "excluir" =>
                       /\ RecordFields(new, key) = RecordFields(old, key)
                       /\ \A f \in RecordFields(old, key) \ {TargetField(op)} :
                             FieldOf(new, key, f) = FieldOf(old, key, f)
                 /\ (req[p].putNo > 0 /\ req[p].putNo = puts) => store = Obj(new)

\* editar_provedores for " b" with " p1, ,p2 ": b now lists p1 and p2, its
\* other fields and the record of a are stored as they were read
C18_Witness ==
    \E p \in Procs :
        /\ req[p].op = "editar_provedores" /\ req[p].key = "b"
        /\ req[p].resp = "302 /" /\ req[p].putNo = puts
        /\ FieldOf(store.kv, "b", "allowedProviders") = Arr(<<Str("p1"), Str("p2")>>)
        /\ FieldOf(req[p].read, "b", "allowedProviders") = Arr(<<Str("p0")>>)
        /\ FieldOf(store.kv, "b", "expiresAt") = FieldOf(req[p].read, "b", "expiresAt")
        /\ DictGet(store.kv, "a", Null) = DictGet(req[p].read, "a", Null)
        /\ DictKeys(store.kv) = {"a", "b"}

-----------------------------------------------------------------------------
(* C19 *)

\* the names the sites store holds a site under
SiteNamesStored(held) == IF IsDict(held) THEN DictKeys(held.kv) ELSE {}

\* C19: an add_site request with an active session, whatever becomes of its
\* GET and its PUT, leaves every site stored under another name stored, with
\* the content it had.
C19_AddSiteKeepsOthers ==
    [][\A p \in Procs :
          (Took(p) /\ req'[p].op = "add_site" /\ ~Unauthenticated(req'[p])) =>
              \A n \in SiteNamesStored(sites) \ {req'[p].key} :
                  /\ n \in SiteNamesStored(sites')
                  /\ DictGet(sites'.kv, n, Null) = DictGet(sites.kv, n, Null)]_vars

====
